---- MODULE Spec2Model ----
(***************************************************************************)
(* Model of tree_extraction/post_processing.py: the node-removal rules,    *)
(* the removal loop of main, the attribute recomputation and the           *)
(* recoloring passes.                                                      *)
(*                                                                         *)
(* Node ids are naturals; the root, the literal "0" of the code, is 0.     *)
(* An edge is stored as the pair <<parent, child>> under which the code    *)
(* adds it (graph.add_edge(predecessor, successor)).  group_sizes, in the  *)
(* code a text of integers joined by single blanks, is the sequence of     *)
(* those integers: str.count(' ') is Len - 1, split() gives the sequence   *)
(* and e1 + " " + e2 is concatenation.  weight, a real, is stored as its   *)
(* square (weight2), which is an integer for nodes on the integer lattice. *)
(* Adjacency lists are read in ascending id order.                         *)
(***************************************************************************)
EXTENDS Integers, Sequences, FiniteSets, TLC

VARIABLES graph, directed, prev, last, prev2, last2, removed, steps,
          pc, node_count, iteration, successor_count,
          lobe, level, prev_lobe, round, order, idx, root_successors

\* what the recoloring passes read and write
recolor_vars == <<lobe, level, prev_lobe, round, order, idx, root_successors>>

vars == <<graph, directed, prev, last, prev2, last2, removed, steps,
          pc, node_count, iteration, successor_count, recolor_vars>>

(* ------------------------------ bounds -------------------------------- *)

\* non-root nodes of an input tree of main
MaxNodes == 4

\* non-root nodes of an input tree a single rule is applied to
MaxRuleNodes == 3

\* nodes attached below the skeleton tree
MaxExtra == 2

\* nodes below the trunk of a tree one recoloring pass is applied to
MaxBelow == 4

\* nodes below the trunk of a tree the recoloring schedule is run on
MaxScheduleBelow == 3

\* non-root nodes of a tree a pass is followed through node by node
MaxLoopNodes == 4

\* the lobes of the nodes of such a tree
LoopLobes == {0, 2, 3}

\* the lobes of the nodes below the trunk when the schedule is run
ScheduleLobes == {0, 1, 2, 4, 5}

(* ----------------------------- constants ------------------------------ *)

Root == 0

REMOVE_IF_GROUP_SIZE_LESS_THAN == 6

\* DIAMETER_TO_WEIGHT_RATIO = 0.85 = RatioNum / RatioDen
RatioNum == 17

RatioDen == 20

\* math.pi, by the convergent 355/113
PiNum == 355

PiDen == 113

\* range(3) of remove_children_without_children
CheckedLayers == 3

(* ------------------------------ helpers ------------------------------- *)

Range(s) == {s[i] : i \in DOMAIN s}

RECURSIVE SetToSeq(_)
SetToSeq(S) ==
    IF S = {} THEN <<>>
    ELSE LET m == CHOOSE x \in S : \A y \in S : x <= y
         IN <<m>> \o SetToSeq(S \ {m})

RECURSIVE SumSeq(_)
SumSeq(s) == IF s = <<>> THEN 0 ELSE Head(s) + SumSeq(Tail(s))

\* node attributes x, y, z: a fixed placement on the integer lattice
Pos(n) == <<n % 4, (n * n) % 5, n \div 8>>

\* distance(graph, a, b), squared
Distance2(a, b) ==
    (Pos(a)[1] - Pos(b)[1]) * (Pos(a)[1] - Pos(b)[1])
    + (Pos(a)[2] - Pos(b)[2]) * (Pos(a)[2] - Pos(b)[2])
    + (Pos(a)[3] - Pos(b)[3]) * (Pos(a)[3] - Pos(b)[3])

\* group_sizes.count(' ') of the text of a non-empty sample sequence
CountSpaces(gs) == IF gs = <<>> THEN 0 ELSE Len(gs) - 1

\* weight < calc_diameter(sum(nums) / len(nums)) * DIAMETER_TO_WEIGHT_RATIO,
\* both sides squared and cleared of denominators
IsClose(weight2, nums) ==
    weight2 * Len(nums) * RatioDen * RatioDen * PiNum
        < 4 * SumSeq(nums) * RatioNum * RatioNum * PiDen

(* -------------------------- networkx helpers -------------------------- *)

\* graph[n]: the neighbours of n (a DiGraph gives the successors only)
Adj(g, n) ==
    IF directed
    THEN {v \in g.nodes : <<n, v>> \in DOMAIN g.edge}
    ELSE {v \in g.nodes : <<n, v>> \in DOMAIN g.edge \/ <<v, n>> \in DOMAIN g.edge}

\* graph[u][v]: the attributes of the edge between u and v
EdgeData(g, u, v) ==
    IF <<u, v>> \in DOMAIN g.edge THEN g.edge[<<u, v>>] ELSE g.edge[<<v, u>>]

RECURSIVE BfsEdgesFrom(_, _, _)
BfsEdgesFrom(g, queue, visited) ==
    IF queue = <<>> THEN <<>>
    ELSE LET n == Head(queue)
             new == SetToSeq(Adj(g, n) \ visited)
         IN [i \in 1..Len(new) |-> <<n, new[i]>>]
            \o BfsEdgesFrom(g, Tail(queue) \o new, visited \cup Adj(g, n))

\* nx.bfs_edges(graph, "0")
bfs_edges(g) == BfsEdgesFrom(g, <<Root>>, {Root})

\* nx.bfs_successors: the edges grouped by parent; the generator ends with
\* "yield (parent, children)", so a source without edges yields (source, [])
RECURSIVE GroupByParent(_, _, _)
GroupByParent(es, parent, children) ==
    IF es = <<>> THEN << <<parent, children>> >>
    ELSE LET p == Head(es)[1]
             c == Head(es)[2]
         IN IF p = parent
            THEN GroupByParent(Tail(es), parent, Append(children, c))
            ELSE << <<parent, children>> >> \o GroupByParent(Tail(es), p, <<c>>)

bfs_successors(g) == GroupByParent(bfs_edges(g), Root, <<>>)

\* dict(nx.bfs_successors(graph, "0"))
SuccessorsDict(g) ==
    LET s == bfs_successors(g)
    IN [p \in {s[i][1] : i \in DOMAIN s} |->
            (CHOOSE x \in Range(s) : x[1] = p)[2]]

\* dict(nx.bfs_predecessors(graph, "0"))
PredecessorsDict(g) ==
    LET es == bfs_edges(g)
    IN [c \in {es[i][2] : i \in DOMAIN es} |->
            (CHOOSE e \in Range(es) : e[2] = c)[1]]

\* remove_nodes: graph.remove_node for each listed node
remove_nodes(g, nodes_to_be_removed) ==
    LET gone == Range(nodes_to_be_removed)
        keep == {e \in DOMAIN g.edge : e[1] \notin gone /\ e[2] \notin gone}
    IN [nodes |-> g.nodes \ gone, edge |-> [e \in keep |-> g.edge[e]]]

\* combine_group_sizes with the two edges swapped
combine_group_sizes_swapped(g, node_pre, node, node_suc) ==
    EdgeData(g, node, node_suc).group_sizes
        \o EdgeData(g, node_pre, node).group_sizes

combine_group_sizes(g, node_pre, node, node_suc) ==
    EdgeData(g, node_pre, node).group_sizes
        \o EdgeData(g, node, node_suc).group_sizes

merge_edges(g, predecessor, node, successor) ==
    [g EXCEPT !.edge =
        (<<predecessor, successor>> :>
            [weight2 |-> Distance2(predecessor, successor),
             group_sizes |-> combine_group_sizes(g, predecessor, node, successor)])
        @@ g.edge]

(* --------------------------- removal rules ---------------------------- *)

\* each rule gives the graph it leaves and its nodes_to_be_removed

remove_minor_edges(g) ==
    LET s == bfs_successors(g)
        has_successors == {s[i][1] : i \in DOMAIN s}
        Minor(e) == /\ e[2] \notin has_successors
                    /\ CountSpaces(EdgeData(g, e[1], e[2]).group_sizes)
                          < REMOVE_IF_GROUP_SIZE_LESS_THAN
        hits == SelectSeq(bfs_edges(g), Minor)
        nodes_to_be_removed == [i \in 1..Len(hits) |-> hits[i][2]]
    IN [graph |-> remove_nodes(g, nodes_to_be_removed),
        removed |-> nodes_to_be_removed]

\* the initial cant_be_removed of straighten_edges and merge_close_nodes
Protected == {Root}

\* straighten_edges without cant_be_removed.add(successor)
RECURSIVE StraightenLoopUnprotected(_, _, _, _, _)
StraightenLoopUnprotected(g, predecessors, items, nodes_to_be_removed, cant_be_removed) ==
    IF items = <<>> THEN [graph |-> g, removed |-> nodes_to_be_removed]
    ELSE LET node == Head(items)[1]
             successor == Head(items)[2][1]
         IN IF node \notin cant_be_removed
            THEN StraightenLoopUnprotected(
                    merge_edges(g, predecessors[node], node, successor),
                    predecessors, Tail(items),
                    Append(nodes_to_be_removed, node),
                    cant_be_removed)
            ELSE StraightenLoopUnprotected(g, predecessors, Tail(items),
                                           nodes_to_be_removed, cant_be_removed)

RECURSIVE StraightenLoop(_, _, _, _, _)
StraightenLoop(g, predecessors, items, nodes_to_be_removed, cant_be_removed) ==
    IF items = <<>> THEN [graph |-> g, removed |-> nodes_to_be_removed]
    ELSE LET node == Head(items)[1]
             successor == Head(items)[2][1]
         IN IF node \notin cant_be_removed
            THEN StraightenLoop(
                    merge_edges(g, predecessors[node], node, successor),
                    predecessors, Tail(items),
                    Append(nodes_to_be_removed, node),
                    cant_be_removed \cup {successor})
            ELSE StraightenLoop(g, predecessors, Tail(items),
                                nodes_to_be_removed, cant_be_removed)

straighten_edges(g) ==
    LET Single(x) == Len(x[2]) = 1
        only_single_successor == SelectSeq(bfs_successors(g), Single)
        r == StraightenLoop(g, PredecessorsDict(g), only_single_successor,
                            <<>>, Protected)
    IN [graph |-> remove_nodes(r.graph, r.removed), removed |-> r.removed]

RECURSIVE MergeCloseLoop(_, _, _, _, _, _)
MergeCloseLoop(g, has_successors, es, nodes_to_be_removed, edges_to_be_merged, cant_be_removed) ==
    IF es = <<>>
    THEN [removed |-> nodes_to_be_removed, merges |-> edges_to_be_merged]
    ELSE LET predecessor == Head(es)[1]
             node == Head(es)[2]
             curr == EdgeData(g, predecessor, node)
             succs == IF node \in DOMAIN has_successors
                      THEN has_successors[node] ELSE <<>>
         IN IF node \notin cant_be_removed
               /\ IsClose(curr.weight2, curr.group_sizes)
            THEN MergeCloseLoop(g, has_successors, Tail(es),
                    Append(nodes_to_be_removed, node),
                    edges_to_be_merged
                        \o [i \in 1..Len(succs) |-> <<predecessor, node, succs[i]>>],
                    cant_be_removed \cup Range(succs))
            ELSE MergeCloseLoop(g, has_successors, Tail(es), nodes_to_be_removed,
                                edges_to_be_merged, cant_be_removed)

RECURSIVE ApplyMerges(_, _)
ApplyMerges(g, ms) ==
    IF ms = <<>> THEN g
    ELSE ApplyMerges(merge_edges(g, Head(ms)[1], Head(ms)[2], Head(ms)[3]),
                     Tail(ms))

merge_close_nodes(g) ==
    LET r == MergeCloseLoop(g, SuccessorsDict(g), bfs_edges(g), <<>>, <<>>,
                            Protected)
    IN [graph |-> remove_nodes(ApplyMerges(g, r.merges), r.removed),
        removed |-> r.removed]

RECURSIVE NodesToCheck(_, _, _)
NodesToCheck(successors, nodes_to_check, rounds) ==
    IF rounds = 0 THEN nodes_to_check
    ELSE LET new_nodes ==
                UNION {Range(successors[n]) :
                        n \in nodes_to_check \cap DOMAIN successors}
         IN NodesToCheck(successors, nodes_to_check \cup new_nodes, rounds - 1)

remove_children_without_children(g) ==
    LET successors == SuccessorsDict(g)
        nodes_to_check == NodesToCheck(successors, {Root}, CheckedLayers)
        nodes_to_be_removed ==
            SetToSeq({adj \in nodes_to_check : adj \notin DOMAIN successors})
    IN [graph |-> remove_nodes(g, nodes_to_be_removed),
        removed |-> nodes_to_be_removed]

(* ----------------------- attribute recomputation ----------------------- *)

\* successor_count returning count instead of count + 1
RECURSIVE successor_count_no_self(_, _)
successor_count_no_self(successors, curr_node) ==
    LET ch == IF curr_node \in DOMAIN successors
              THEN successors[curr_node] ELSE <<>>
        RECURSIVE Total(_)
        Total(i) == IF i = 0 THEN 0
                    ELSE successor_count_no_self(successors, ch[i]) + Total(i - 1)
    IN Total(Len(ch))

\* the inner successor_count of assign_children_count: it returns count + 1
RECURSIVE successor_count_rec(_, _)
successor_count_rec(successors, curr_node) ==
    LET ch == IF curr_node \in DOMAIN successors
              THEN successors[curr_node] ELSE <<>>
        RECURSIVE Total(_)
        Total(i) == IF i = 0 THEN 0
                    ELSE successor_count_rec(successors, ch[i]) + Total(i - 1)
    IN Total(Len(ch)) + 1

\* the successor_count attribute each visited node gets
assign_children_count(g) ==
    LET successors == SuccessorsDict(g)
        es == bfs_edges(g)
        visited == {Root} \cup {es[i][2] : i \in DOMAIN es}
    IN [n \in visited |-> successor_count_rec(successors, n) - 1]

(* ------------------------- recoloring: dicts -------------------------- *)

\* a dict is the sequence of its <<key, value>> items in insertion order

Keys(d) == {d[i][1] : i \in DOMAIN d}

\* d.get(k, default); d[k] where k is a key
Get(d, k, default) ==
    IF k \in Keys(d) THEN (CHOOSE x \in Range(d) : x[1] = k)[2] ELSE default

\* d[k] = v: a new key goes last, a known key keeps its place
Put(d, k, v) ==
    IF k \in Keys(d)
    THEN [i \in DOMAIN d |-> IF d[i][1] = k THEN <<k, v>> ELSE d[i]]
    ELSE Append(d, <<k, v>>)

\* for key, occ in items: lobes[key] = lobes.get(key, 0) + occ
RECURSIVE MergeCounts(_, _)
MergeCounts(lobes, items) ==
    IF items = <<>> THEN lobes
    ELSE MergeCounts(Put(lobes, Head(items)[1],
                         Get(lobes, Head(items)[1], 0) + Head(items)[2]),
                     Tail(items))

(* -------------------- recoloring: attribute folds --------------------- *)

\* the inner successor_lobes of get_successor_lobes.  The dict it returns is
\* the very object stored as all_successors[curr_node] two lines before the
\* node's own lobe is added to it, so the stored dict holds the own lobe too
RECURSIVE successor_lobes(_, _, _)
successor_lobes(successors, lobe_of, curr_node) ==
    LET ch == IF curr_node \in DOMAIN successors
              THEN successors[curr_node] ELSE <<>>
        RECURSIVE Merged(_, _)
        Merged(lobes, i) ==
            IF i > Len(ch) THEN lobes
            ELSE Merged(MergeCounts(lobes,
                                   successor_lobes(successors, lobe_of, ch[i])),
                       i + 1)
        lobes == Merged(<<>>, 1)
        curr_lobe == lobe_of[curr_node]
    IN IF curr_lobe # 0
       THEN Put(lobes, curr_lobe, Get(lobes, curr_lobe, 0) + 1)
       ELSE lobes

\* the order in which all_successors gets its keys: a node after its subtree
RECURSIVE PostOrder(_, _)
PostOrder(successors, curr_node) ==
    LET ch == IF curr_node \in DOMAIN successors
              THEN successors[curr_node] ELSE <<>>
        RECURSIVE Sub(_)
        Sub(i) == IF i > Len(ch) THEN <<>>
                  ELSE PostOrder(successors, ch[i]) \o Sub(i + 1)
    IN Append(Sub(1), curr_node)

\* get_successor_lobes(graph, return_count=True)
get_successor_lobes_count(g, lobe_of) ==
    LET successors == SuccessorsDict(g)
        keys == PostOrder(successors, Root)
    IN [i \in DOMAIN keys |->
            <<keys[i], successor_lobes(successors, lobe_of, keys[i])>>]

\* get_successor_lobes(graph): each dict replaced by the set of its keys
get_successor_lobes(g, lobe_of) ==
    LET all_successors == get_successor_lobes_count(g, lobe_of)
    IN [i \in DOMAIN all_successors |->
            <<all_successors[i][1], Keys(all_successors[i][2])>>]

\* the nodes rec_traverse of set_attribute_recursively visits
RECURSIVE rec_traverse(_, _)
rec_traverse(successors, curr_node) ==
    LET ch == IF curr_node \in DOMAIN successors
              THEN successors[curr_node] ELSE <<>>
    IN {curr_node} \cup UNION {rec_traverse(successors, ch[i]) : i \in DOMAIN ch}

\* set_attribute_recursively(graph, node, 'lobe', value)
set_attribute_recursively(g, lobe_of, node, value) ==
    LET visited == rec_traverse(SuccessorsDict(g), node)
    IN [n \in DOMAIN lobe_of |-> IF n \in visited THEN value ELSE lobe_of[n]]

\* set_level of tree_extraction.compose_tree: the depth of each node
RECURSIVE Depth(_, _)
Depth(g, n) ==
    IF n = Root THEN 0
    ELSE Depth(g, CHOOSE p \in g.nodes : <<p, n>> \in DOMAIN g.edge) + 1

set_level(g) == [n \in g.nodes |-> Depth(g, n)]

(* ------------------------ recoloring: the passes ---------------------- *)

\* one turn of the loop of recolor_if_all_adjacent_have_different_color;
\* st holds the lobes and the root_successors dict.  The counter decreased
\* is read through n[node]['lobe'] after that was set to surrounding_lobe
NeighborStep(g, st, node) ==
    LET own == st.lobe[node]
        adjacent_lobes == {st.lobe[adj] : adj \in Adj(g, node)} \ {0}
        surrounding_lobe == CHOOSE l \in adjacent_lobes : TRUE
    IN IF /\ own # 0
          /\ Cardinality(adjacent_lobes) = 1
          /\ surrounding_lobe # own
          /\ Get(st.root_successors, own, 0) > 1
       THEN LET new == [st.lobe EXCEPT ![node] = surrounding_lobe]
                dec == Put(st.root_successors, new[node],
                           Get(st.root_successors, new[node], 0) - 1)
                inc == Put(dec, surrounding_lobe,
                           Get(dec, surrounding_lobe, 0) + 1)
            IN [lobe |-> new, root_successors |-> inc]
       ELSE st

\* get_successor_lobes(graph, return_count=True)['0']
RootCounts(g, lobe_of) == successor_lobes(SuccessorsDict(g), lobe_of, Root)

RECURSIVE NeighborLoop(_, _, _)
NeighborLoop(g, st, nodes) ==
    IF nodes = <<>> THEN st
    ELSE NeighborLoop(g, NeighborStep(g, st, Head(nodes)), Tail(nodes))

\* nodes is graph.nodes() in iteration order
recolor_if_all_adjacent_have_different_color(g, lobe_of, nodes) ==
    NeighborLoop(g, [lobe |-> lobe_of,
                     root_successors |-> RootCounts(g, lobe_of)], nodes).lobe

recolor_if_successors_all_different_color(g, lobe_of) ==
    LET items == get_successor_lobes(g, lobe_of)
        RECURSIVE Loop(_, _)
        Loop(l, i) ==
            IF i > Len(items) THEN l
            ELSE LET node == items[i][1]
                     lobes == items[i][2]
                     curr_lobe == l[node]
                 IN Loop(IF /\ curr_lobe # 0
                            /\ Cardinality(lobes) = 1
                            /\ curr_lobe \notin lobes
                         THEN [l EXCEPT ![node] = CHOOSE c \in lobes : TRUE]
                         ELSE l,
                         i + 1)
    IN Loop(lobe_of, 1)

\* the keys of sorted(d.items(), key=lambda x: x[1], reverse=True): highest
\* count first, equal counts in dict order (the sort is stable)
RECURSIVE SortedByCount(_)
SortedByCount(d) ==
    IF d = <<>> THEN <<>>
    ELSE LET i == CHOOSE i \in DOMAIN d :
                    /\ \A j \in DOMAIN d : d[j][2] <= d[i][2]
                    /\ \A j \in 1..(i - 1) : d[j][2] < d[i][2]
         IN <<d[i][1]>>
            \o SortedByCount(SubSeq(d, 1, i - 1) \o SubSeq(d, i + 1, Len(d)))

\* all(difference_per_lobe_root_and_curr_node) for the candidate new_lobe
NoLobeRemoved(new_lobe, root_succ, lobes) ==
    \A i \in DOMAIN root_succ :
        root_succ[i][1] # new_lobe
            => root_succ[i][2] - Get(lobes, root_succ[i][1], 0) # 0

\* the test on level and on the lobes 4 and 5 below the node
AtLevel4Or5(level_of, node, lobes) ==
    LET exc4 == 4 \in Keys(lobes)
        exc5 == 5 \in Keys(lobes)
    IN \/ level_of[node] = 4 /\ ~(exc4 \/ exc5)
       \/ level_of[node] = 5 /\ exc4 /\ exc5

\* all_successor_lobes is computed once, before the loop
recolor_entire_subtree_to_majority_at_level_4_or_5(g, level_of, lobe_of) ==
    LET all_successor_lobes == get_successor_lobes_count(g, lobe_of)
        root_succ == Get(all_successor_lobes, Root, <<>>)
        RECURSIVE Loop(_, _)
        Loop(l, i) ==
            IF i > Len(all_successor_lobes) THEN l
            ELSE LET node == all_successor_lobes[i][1]
                     lobes == all_successor_lobes[i][2]
                     Passes(new_lobe) == NoLobeRemoved(new_lobe, root_succ, lobes)
                     accepted == SelectSeq(SortedByCount(lobes), Passes)
                 IN Loop(IF /\ 1 < Len(lobes)
                            /\ AtLevel4Or5(level_of, node, lobes)
                            /\ accepted # <<>>
                         THEN set_attribute_recursively(g, l, node, accepted[1])
                         ELSE l,
                         i + 1)
    IN Loop(lobe_of, 1)

\* possibly_make_neutral_above_level_4 writing -1 for "no lobe"
possibly_make_neutral_minus_one(g, level_of, lobe_of) ==
    LET items == get_successor_lobes(g, lobe_of)
    IN [n \in DOMAIN lobe_of |->
          IF \E i \in DOMAIN items :
                /\ items[i][1] = n
                /\ level_of[n] <= 4 /\ lobe_of[n] # 0
                /\ Cardinality(items[i][2]) > 1
          THEN -1 ELSE lobe_of[n]]

\* each node is met once and only its own lobe is written
possibly_make_neutral_above_level_4(g, level_of, lobe_of) ==
    LET items == get_successor_lobes(g, lobe_of)
    IN [n \in DOMAIN lobe_of |->
          IF \E i \in DOMAIN items :
                /\ items[i][1] = n
                /\ level_of[n] <= 4 /\ lobe_of[n] # 0
                /\ Cardinality(items[i][2]) > 1
          THEN 0 ELSE lobe_of[n]]

\* occ = {lobe: lobes.count(lobe) for lobe in lobes}
RECURSIVE Occurrences(_, _)
Occurrences(lobes, i) ==
    IF i > Len(lobes) THEN <<>>
    ELSE LET rest == Occurrences(lobes, i + 1)
             count == Cardinality({j \in DOMAIN lobes : lobes[j] = lobes[i]})
         IN IF \E j \in 1..(i - 1) : lobes[j] = lobes[i] THEN rest
            ELSE << <<lobes[i], count>> >> \o rest

\* new_lobe with "1 <= count" for "1 < count"
NewLobeFromOneChild(occ) ==
    LET Top(item) == /\ 1 <= item[2]
                     /\ \A j \in DOMAIN occ : occ[j][2] <= item[2]
    IN SelectSeq(occ, Top)

\* new_lobe = [lobe for lobe, count in occ.items()
\*             if 1 < count == max(occ.values())], as items
NewLobe(occ) ==
    LET Top(item) == /\ 1 < item[2]
                     /\ \A j \in DOMAIN occ : occ[j][2] <= item[2]
    IN SelectSeq(occ, Top)

\* one turn of the loop of add_new_parent_for_lobe
FillStep(g, lobe_of, node) ==
    LET successors == SuccessorsDict(g)
        curr_lobe == lobe_of[node]
    IN IF curr_lobe = 0 /\ node \in DOMAIN successors
       THEN LET lobes == [i \in DOMAIN successors[node] |->
                            lobe_of[successors[node][i]]]
                new_lobe == NewLobe(Occurrences(lobes, 1))
            IN IF new_lobe # <<>> /\ new_lobe[1][1] # curr_lobe
               THEN [lobe_of EXCEPT ![node] = new_lobe[1][1]]
               ELSE lobe_of
       ELSE lobe_of

RECURSIVE FillLoop(_, _, _)
FillLoop(g, lobe_of, nodes) ==
    IF nodes = <<>> THEN lobe_of
    ELSE FillLoop(g, FillStep(g, lobe_of, Head(nodes)), Tail(nodes))

add_new_parent_for_lobe(g, lobe_of, nodes) == FillLoop(g, lobe_of, nodes)

(* ------------------------------- inputs ------------------------------- *)

\* the sample texts an input edge may carry: 5 samples of a wide branch,
\* 6 and 7 samples of narrow ones
GroupSizeOptions ==
    { <<50, 51, 52, 53, 54>>, <<1, 2, 3, 4, 5, 6>>, <<7, 8, 9, 10, 11, 12, 13>> }

\* a tree the removal rules leave alone: the root, its only child and a
\* complete binary tree of depth 3 below it (children of i are 2i and 2i+1),
\* every edge with seven samples of area 1
SkeletonNodes == 0..15

SkeletonGroupSizes == <<1, 1, 1, 1, 1, 1, 1>>

\* the nodes of the skeleton below which further nodes are attached
SkeletonAttach == Cardinality(SkeletonNodes) - 2

\* the parents of nodes first..first+k-1, each attached to a node from
\* attach on, in breadth-first numbering (parents do not decrease)
ParentChoices(first, k, attach) ==
    IF k = 0 THEN { <<>> }
    ELSE {f \in [first..(first + k - 1) -> attach..(first + k - 2)] :
            \A i \in first..(first + k - 1) :
                /\ f[i] < i
                /\ i > first => f[i - 1] <= f[i]}

\* a trunk "0" - 1 - 2 - 3 that puts the nodes attached below it on the
\* levels 4 and deeper; main leaves the lobes of the levels 2 and 3 neutral
TrunkNodes == 0..3

TrunkAttach == Cardinality(TrunkNodes) - 1

\* the parent of each node of the skeleton tree, and of the trunk
HeapParent == [i \in SkeletonNodes |-> i \div 2]

ChainParent == [i \in TrunkNodes |-> i - 1]

\* the tree of base nodes (parent base_parent[i]) and extra nodes (parent
\* par[i]), an edge's weight being the distance of its ends
MakeTree(base, base_parent, par, gs) ==
    LET extra == DOMAIN par
        E == {<<base_parent[i], i>> : i \in base \ {Root}}
                \cup {<<par[i], i>> : i \in extra}
    IN [nodes |-> base \cup extra,
        edge |-> [e \in E |->
                    [weight2 |-> Distance2(e[1], e[2]),
                     group_sizes |-> IF e[2] \in extra THEN gs[e[2]]
                                     ELSE SkeletonGroupSizes]]]

TreesOver(base, base_parent, attach, maxExtra, options) ==
    LET first == Cardinality(base)
    IN UNION {
         UNION { {MakeTree(base, base_parent, par, gs) : gs \in [DOMAIN par -> options]} :
                 par \in ParentChoices(first, k, attach) } :
         k \in 0..maxExtra }

InitGraphs(maxNodes) ==
    TreesOver({Root}, HeapParent, Root, maxNodes, GroupSizeOptions)
        \cup TreesOver(SkeletonNodes, HeapParent, SkeletonAttach, MaxExtra,
                      GroupSizeOptions)

(* ------------------------------ actions ------------------------------- *)

\* what one rule leaves: the graph, its removal list, and the two graphs
\* before it; a removed node's attributes go with it
Applied(name, r) ==
    /\ graph' = r.graph
    /\ removed' = r.removed
    /\ prev' = graph
    /\ last' = name
    /\ prev2' = prev
    /\ last2' = last
    /\ successor_count' =
          [n \in DOMAIN successor_count \cap r.graph.nodes |-> successor_count[n]]

\* a traversal from "0" needs "0" in the graph (networkx raises otherwise)
CanTraverse == Root \in graph.nodes

InitCommon(graphs) ==
    /\ graph \in graphs
    /\ steps = 0
    /\ directed \in BOOLEAN
    /\ prev = graph
    /\ last = "load_graph"
    /\ prev2 = graph
    /\ last2 = "load_graph"
    /\ removed = <<>>
    /\ node_count = 0
    /\ iteration = 0
    /\ successor_count = <<>>
    /\ lobe = <<>> /\ level = <<>> /\ prev_lobe = <<>>
    /\ round = 0 /\ order = <<>> /\ idx = 0 /\ root_successors = <<>>

(* the rules and assign_children_count: any of them applied to any tree, *)
(* and any of them applied to what that leaves                           *)

InitRules ==
    /\ InitCommon(TreesOver({Root}, HeapParent, Root, MaxRuleNodes,
                            GroupSizeOptions))
    /\ pc = "rules"

\* the first or the second application
RuleTurn ==
    /\ pc \in {"rules", "rules_again"} /\ CanTraverse
    /\ steps' = steps + 1
    /\ pc' = IF pc = "rules" THEN "rules_again" ELSE "rules_done"

RuleMinor ==
    /\ RuleTurn
    /\ Applied("remove_minor_edges", remove_minor_edges(graph))
    /\ UNCHANGED <<directed, node_count, iteration, recolor_vars>>

RuleStraighten ==
    /\ RuleTurn
    /\ Applied("straighten_edges", straighten_edges(graph))
    /\ UNCHANGED <<directed, node_count, iteration, recolor_vars>>

RuleMerge ==
    /\ RuleTurn
    /\ Applied("merge_close_nodes", merge_close_nodes(graph))
    /\ UNCHANGED <<directed, node_count, iteration, recolor_vars>>

RulePrune ==
    /\ RuleTurn
    /\ Applied("remove_children_without_children",
               remove_children_without_children(graph))
    /\ UNCHANGED <<directed, node_count, iteration, recolor_vars>>

RuleAssign ==
    /\ RuleTurn
    /\ successor_count' = assign_children_count(graph)
    /\ prev' = graph /\ last' = "assign_children_count"
    /\ prev2' = prev /\ last2' = last
    /\ removed' = <<>>
    /\ UNCHANGED <<graph, directed, node_count, iteration, recolor_vars>>

NextRules == RuleMinor \/ RuleStraighten \/ RuleMerge \/ RulePrune \/ RuleAssign

SpecRules == InitRules /\ [][NextRules]_vars

(* main: the removal loop, then assign_children_count *)

\* a loop that stops after its first cycle
LoopExitAtOnce(count, g) == TRUE

\* a loop that stops only when a cycle has added nodes
LoopExitNever(count, g) == count < Cardinality(g.nodes)

\* the test that ends the loop: node_count == graph.number_of_nodes()
LoopExit(count, g) == count = Cardinality(g.nodes)

Init == InitCommon(InitGraphs(MaxNodes)) /\ pc = "remove_minor_edges"

MainMinor ==
    /\ pc = "remove_minor_edges" /\ CanTraverse
    /\ node_count' = Cardinality(graph.nodes)
    /\ Applied("remove_minor_edges", remove_minor_edges(graph))
    /\ pc' = "straighten_edges"
    /\ UNCHANGED <<directed, steps, iteration, recolor_vars>>

MainStraighten ==
    /\ pc = "straighten_edges" /\ CanTraverse
    /\ Applied("straighten_edges", straighten_edges(graph))
    /\ pc' = "merge_close_nodes"
    /\ UNCHANGED <<directed, steps, node_count, iteration, recolor_vars>>

MainMerge ==
    /\ pc = "merge_close_nodes" /\ CanTraverse
    /\ Applied("merge_close_nodes", merge_close_nodes(graph))
    /\ pc' = "remove_children_without_children"
    /\ UNCHANGED <<directed, steps, node_count, iteration, recolor_vars>>

MainPrune ==
    /\ pc = "remove_children_without_children" /\ CanTraverse
    /\ LET r == remove_children_without_children(graph)
       IN /\ Applied("remove_children_without_children", r)
          /\ pc' = IF LoopExit(node_count, r.graph)
                   THEN "assign_children_count" ELSE "remove_minor_edges"
    /\ iteration' = iteration + 1
    /\ UNCHANGED <<directed, steps, node_count, recolor_vars>>

MainAssign ==
    /\ pc = "assign_children_count" /\ CanTraverse
    /\ successor_count' = assign_children_count(graph)
    /\ pc' = "done"
    /\ UNCHANGED <<graph, directed, prev, last, prev2, last2, removed, steps,
                   node_count, iteration, recolor_vars>>

Next == MainMinor \/ MainStraighten \/ MainMerge \/ MainPrune \/ MainAssign

Spec == Init /\ [][Next]_vars

(* ------------------------- recoloring: inputs ------------------------- *)

LobeValues == 0..5

\* range(5) of main
Rounds == 5

TrunkTrees(maxBelow) ==
    TreesOver(TrunkNodes, ChainParent, TrunkAttach, maxBelow, {SkeletonGroupSizes})

SmallTrees(maxNodes) ==
    TreesOver({Root}, ChainParent, Root, maxNodes, {SkeletonGroupSizes})

\* the lobes of an input: neutral on the nodes of fixed, any of values below
LobeChoices(g, fixed, values) ==
    {[n \in g.nodes |-> IF n \in fixed THEN 0 ELSE f[n]] :
        f \in [g.nodes \ fixed -> values]}

Reversed(s) == [i \in DOMAIN s |-> s[Len(s) + 1 - i]]

\* a loaded tree with its levels set, the removal loop left aside
InitRecolor(graphs, fixed, values) ==
    /\ graph \in graphs
    /\ directed \in BOOLEAN
    /\ prev = graph /\ last = "load_graph"
    /\ prev2 = graph /\ last2 = "load_graph"
    /\ removed = <<>> /\ steps = 0
    /\ node_count = 0 /\ iteration = 0
    /\ successor_count = <<>>
    /\ level = set_level(graph)
    /\ lobe \in LobeChoices(graph, fixed, values)
    /\ prev_lobe = lobe
    /\ round = 0
    /\ idx = 0

removal_vars == <<graph, directed, prev, last, prev2, last2, removed, steps,
                  node_count, iteration, successor_count>>

(* the recoloring schedule of main *)

InitSchedule ==
    /\ InitRecolor(TrunkTrees(MaxScheduleBelow), TrunkNodes, ScheduleLobes)
    /\ order = SetToSeq(graph.nodes)
    /\ root_successors = <<>>
    /\ pc = "recolor_if_all_adjacent_have_different_color"

\* a pass of the schedule: the lobes it leaves and the pass that follows
Recolored(new_lobe, next_pc) ==
    /\ lobe' = new_lobe
    /\ prev_lobe' = lobe
    /\ pc' = next_pc
    /\ UNCHANGED <<removal_vars, level, order, idx, root_successors>>

ScheduleNeighbor ==
    /\ pc = "recolor_if_all_adjacent_have_different_color"
    /\ Recolored(recolor_if_all_adjacent_have_different_color(graph, lobe, order),
                 "recolor_if_successors_all_different_color")
    /\ UNCHANGED round

ScheduleSubtree ==
    /\ pc = "recolor_if_successors_all_different_color"
    /\ round' = round + 1
    /\ Recolored(recolor_if_successors_all_different_color(graph, lobe),
                 IF round + 1 < Rounds
                 THEN "recolor_if_all_adjacent_have_different_color"
                 ELSE "recolor_entire_subtree_to_majority_at_level_4_or_5")

ScheduleDrastic ==
    /\ pc = "recolor_entire_subtree_to_majority_at_level_4_or_5"
    /\ Recolored(recolor_entire_subtree_to_majority_at_level_4_or_5(graph, level, lobe),
                 "possibly_make_neutral_above_level_4")
    /\ UNCHANGED round

ScheduleNeutral ==
    /\ pc = "possibly_make_neutral_above_level_4"
    /\ Recolored(possibly_make_neutral_above_level_4(graph, level, lobe),
                 "add_new_parent_for_lobe")
    /\ UNCHANGED round

ScheduleFill ==
    /\ pc = "add_new_parent_for_lobe"
    /\ Recolored(add_new_parent_for_lobe(graph, lobe, order), "write_graphml")
    /\ UNCHANGED round

NextSchedule ==
    \/ ScheduleNeighbor \/ ScheduleSubtree \/ ScheduleDrastic
    \/ ScheduleNeutral \/ ScheduleFill

SpecSchedule == InitSchedule /\ [][NextSchedule]_vars

(* each pass, applied once to any tree *)

InitPass ==
    /\ InitRecolor(TrunkTrees(MaxBelow), TrunkNodes, LobeValues)
    /\ order = SetToSeq(graph.nodes)
    /\ root_successors = <<>>
    /\ pc = "pass"

PassNeighbor ==
    /\ pc = "pass"
    /\ Recolored(recolor_if_all_adjacent_have_different_color(graph, lobe, order),
                 "recolor_if_all_adjacent_have_different_color")
    /\ UNCHANGED round

PassSubtree ==
    /\ pc = "pass"
    /\ Recolored(recolor_if_successors_all_different_color(graph, lobe),
                 "recolor_if_successors_all_different_color")
    /\ UNCHANGED round

PassDrastic ==
    /\ pc = "pass"
    /\ Recolored(recolor_entire_subtree_to_majority_at_level_4_or_5(graph, level, lobe),
                 "recolor_entire_subtree_to_majority_at_level_4_or_5")
    /\ UNCHANGED round

PassNeutral ==
    /\ pc = "pass"
    /\ Recolored(possibly_make_neutral_above_level_4(graph, level, lobe),
                 "possibly_make_neutral_above_level_4")
    /\ UNCHANGED round

PassFill ==
    /\ pc = "pass"
    /\ Recolored(add_new_parent_for_lobe(graph, lobe, order),
                 "add_new_parent_for_lobe")
    /\ UNCHANGED round

NextPass == PassNeighbor \/ PassSubtree \/ PassDrastic \/ PassNeutral \/ PassFill

SpecPass == InitPass /\ [][NextPass]_vars

(* the loops of the neighbor pass and of the fill pass, node by node *)

InitLoop ==
    /\ InitRecolor(SmallTrees(MaxLoopNodes), {}, LoopLobes)
    /\ order \in {SetToSeq(graph.nodes), Reversed(SetToSeq(graph.nodes))}
    /\ root_successors = <<>>
    /\ pc \in {"recolor_if_all_adjacent_have_different_color", "fill_loop"}

\* the line before the loop of the neighbor pass
LoopRootCounts ==
    /\ pc = "recolor_if_all_adjacent_have_different_color"
    /\ root_successors' = RootCounts(graph, lobe)
    /\ pc' = "neighbor_loop"
    /\ UNCHANGED <<removal_vars, lobe, level, prev_lobe, round, order, idx>>

LoopNeighbor ==
    /\ pc = "neighbor_loop" /\ idx < Len(order)
    /\ LET st == NeighborStep(graph, [lobe |-> lobe,
                                      root_successors |-> root_successors],
                              order[idx + 1])
       IN /\ lobe' = st.lobe
          /\ root_successors' = st.root_successors
    /\ prev_lobe' = lobe
    /\ idx' = idx + 1
    /\ UNCHANGED <<removal_vars, pc, level, round, order>>

LoopFill ==
    /\ pc = "fill_loop" /\ idx < Len(order)
    /\ lobe' = FillStep(graph, lobe, order[idx + 1])
    /\ prev_lobe' = lobe
    /\ idx' = idx + 1
    /\ UNCHANGED <<removal_vars, pc, level, round, order, root_successors>>

NextLoop == LoopRootCounts \/ LoopNeighbor \/ LoopFill

SpecLoop == InitLoop /\ [][NextLoop]_vars

(* ------------------------------- claims ------------------------------- *)

RuleNames == {"remove_minor_edges", "straighten_edges", "merge_close_nodes",
              "remove_children_without_children"}

\* the nodes an undirected walk from the root reaches
RECURSIVE Reached(_, _)
Reached(g, S) ==
    LET T == S \cup {v \in g.nodes : \E u \in S :
                        <<u, v>> \in DOMAIN g.edge \/ <<v, u>> \in DOMAIN g.edge}
    IN IF T = S THEN S ELSE Reached(g, T)

\* a tree with root "0": connected with nodes - 1 edges, hence acyclic
IsTree(g) ==
    /\ Root \in g.nodes
    /\ \A e \in DOMAIN g.edge : e[1] \in g.nodes /\ e[2] \in g.nodes /\ e[1] # e[2]
    /\ \A e \in DOMAIN g.edge : <<e[2], e[1]>> \notin DOMAIN g.edge
    /\ Reached(g, {Root}) = g.nodes
    /\ Cardinality(DOMAIN g.edge) = Cardinality(g.nodes) - 1

Children(g, n) == {v \in g.nodes : <<n, v>> \in DOMAIN g.edge}

Leaves(g) == {n \in g.nodes \ {Root} : Children(g, n) = {}}

ParentOf(g, n) == CHOOSE u \in g.nodes : <<u, n>> \in DOMAIN g.edge

\* the strict descendants of n
RECURSIVE Below(_, _)
Below(g, S) ==
    LET T == S \cup UNION {Children(g, u) : u \in S}
    IN IF T = S THEN S ELSE Below(g, T)

Descendants(g, n) == Below(g, Children(g, n))

\* g is the chain root -> a -> b -> c
IsChain(g, a, b, c) ==
    /\ Cardinality({Root, a, b, c}) = 4
    /\ g.nodes = {Root, a, b, c}
    /\ DOMAIN g.edge = {<<Root, a>>, <<a, b>>, <<b, c>>}

Edge(u, v, w2, gs) == <<u, v>> :> [weight2 |-> w2, group_sizes |-> gs]

\* C1: every removal rule leaves a tree with root "0" (connected, acyclic,
\* edges = nodes - 1) and never lists the root among the nodes it removes.
C1_RulesPreserveTree ==
    last \in RuleNames => IsTree(graph) /\ Root \notin Range(removed)

\* a rule has been applied to the single-node tree, and one to a tree whose
\* nodes other than the root are all leaves
C1_Witness ==
    /\ last = "remove_children_without_children"
    /\ last2 = "remove_children_without_children"
    /\ Cardinality(prev2.nodes) > 2
    /\ Leaves(prev2) = prev2.nodes \ {Root}
    /\ prev.nodes = {Root}
    /\ graph.nodes = {Root}

\* C2: the removal loop of main halts normally.  No traversal ever lacks
\* its root "0" (nothing raises); the loop is left at the end of a cycle
\* exactly when the node count after it equals the count taken before it;
\* and a cycle that does not end the loop leaves fewer nodes than it found,
\* of which there is always at least one, so the cycles are finitely many.
C2_LoopHalts ==
    /\ [](pc # "done" => CanTraverse)
    /\ [](Cardinality(graph.nodes) >= 1)
    /\ [][pc = "remove_minor_edges" =>
            node_count' = Cardinality(graph.nodes)]_vars
    /\ [][pc = "remove_children_without_children" =>
            /\ (pc' = "assign_children_count")
                  <=> (Cardinality(graph'.nodes) = node_count)
            /\ (pc' = "remove_minor_edges")
                  <=> (Cardinality(graph'.nodes) < node_count)]_vars

\* main has ended on a tree the rules reduced to the root alone
C2_Witness ==
    /\ pc = "done"
    /\ iteration >= 2
    /\ graph.nodes = {Root}

\* one cycle of the four rules
Cycle(g) ==
    remove_children_without_children(
        merge_close_nodes(
            straighten_edges(
                remove_minor_edges(g).graph).graph).graph).graph

\* C3: once the loop of main has stopped, one more cycle of the four rules
\* changes no node, no edge, no weight and no group_sizes.
C3_IdempotentAtConvergence ==
    pc \in {"assign_children_count", "done"} => Cycle(graph) = graph

\* the loop has stopped, after removing nodes, on more than the root
C3_Witness ==
    /\ pc = "assign_children_count"
    /\ iteration >= 2
    /\ Cardinality(graph.nodes) > 1

\* the samples of the edge into n
SamplesInto(g, n) == Len(g.edge[<<ParentOf(g, n), n>>].group_sizes)

\* C4: one application of remove_minor_edges removes exactly the leaves
\* whose incoming edge has fewer than 6 samples.
C4_MinorRemovesShortLeaves ==
    last = "remove_minor_edges" =>
        LET short == {n \in Leaves(prev) :
                        SamplesInto(prev, n) < REMOVE_IF_GROUP_SIZE_LESS_THAN}
        IN /\ Range(removed) = short
           /\ graph.nodes = prev.nodes \ short

\* C5 as stated: one run of straighten_edges turns root -> a -> b -> c
\* into root -> c.
C5_StraightenChainInOneRun ==
    \A a, b, c \in prev.nodes :
        (last = "straighten_edges" /\ IsChain(prev, a, b, c)) =>
            graph = [nodes |-> {Root, c},
                     edge |-> Edge(Root, c, Distance2(Root, c),
                                   prev.edge[<<Root, a>>].group_sizes
                                   \o prev.edge[<<a, b>>].group_sizes
                                   \o prev.edge[<<b, c>>].group_sizes)]

\* C5, amended: one run of straighten_edges on root -> a -> b -> c removes
\* a only, leaving root -> b -> c with (root, b) of weight distance(root, b)
\* and the samples of (root, a) then (a, b); a second run removes b, leaving
\* root -> c with weight distance(root, c) and the samples of (root, a),
\* (a, b), (b, c) in that order.
C5_StraightenChainInTwoRuns ==
    \A a, b, c \in prev2.nodes :
        /\ (last = "straighten_edges" /\ IsChain(prev, a, b, c)) =>
              /\ removed = <<a>>
              /\ graph = [nodes |-> {Root, b, c},
                          edge |-> Edge(Root, b, Distance2(Root, b),
                                        prev.edge[<<Root, a>>].group_sizes
                                        \o prev.edge[<<a, b>>].group_sizes)
                                   @@ Edge(b, c, prev.edge[<<b, c>>].weight2,
                                           prev.edge[<<b, c>>].group_sizes)]
        /\ (last = "straighten_edges" /\ last2 = "straighten_edges"
            /\ IsChain(prev2, a, b, c)) =>
              /\ removed = <<b>>
              /\ graph = [nodes |-> {Root, c},
                          edge |-> Edge(Root, c, Distance2(Root, c),
                                        prev2.edge[<<Root, a>>].group_sizes
                                        \o prev2.edge[<<a, b>>].group_sizes
                                        \o prev2.edge[<<b, c>>].group_sizes)]

\* straighten_edges has run twice on a chain root -> a -> b -> c whose
\* three edges carry different samples
C5_Witness ==
    /\ last = "straighten_edges" /\ last2 = "straighten_edges"
    /\ \E a, b, c \in prev2.nodes :
          /\ IsChain(prev2, a, b, c)
          /\ Len(prev2.edge[<<Root, a>>].group_sizes)
                < Len(prev2.edge[<<a, b>>].group_sizes)
          /\ Len(prev2.edge[<<a, b>>].group_sizes)
                < Len(prev2.edge[<<b, c>>].group_sizes)

\* C9: after assign_children_count every node's successor_count is the
\* number of its strict descendants, and the root's plus 1 is the number
\* of nodes.
C9_SuccessorCount ==
    last = "assign_children_count" =>
        /\ DOMAIN successor_count = graph.nodes
        /\ \A n \in graph.nodes :
              successor_count[n] = Cardinality(Descendants(graph, n))
        /\ successor_count[Root] + 1 = Cardinality(graph.nodes)

\* the counts have been assigned on a branching tree of depth 2 or more
C9_Witness ==
    /\ last = "assign_children_count"
    /\ Cardinality(Children(graph, Root)) >= 2
    /\ \E n \in Children(graph, Root) : Children(graph, n) # {}

\* the number of nodes carrying lobe L under the assignment l
TrueCount(l, L) == Cardinality({n \in graph.nodes : l[n] = L})

\* C6: the drastic subtree recolor eliminates no lobe: every lobe of 1..5
\* carried by some node before the pass is carried by some node after it,
\* however many nodes of level 4 or 5 the pass recolors in one run.
C6_DrasticKeepsEveryLobe ==
    pc = "recolor_entire_subtree_to_majority_at_level_4_or_5" =>
        \A L \in 1..5 : TrueCount(prev_lobe, L) > 0 => TrueCount(lobe, L) > 0

\* the node the last turn of a loop examined
Examined == order[idx]

\* how many children of n carried L when n was examined, and the first of
\* them in child order
CountOf(n, L) == Cardinality({c \in Children(graph, n) : prev_lobe[c] = L})

FirstOf(n, L) ==
    CHOOSE c \in Children(graph, n) :
        /\ prev_lobe[c] = L
        /\ \A d \in Children(graph, n) : prev_lobe[d] = L => c <= d

\* C7 as stated: a turn of add_new_parent_for_lobe gives a neutral node the
\* lobe L iff at least two children carry L and every other lobe value is
\* carried by strictly fewer children; otherwise, ties included, the node
\* stays neutral; no other node changes.
C7_FillStrictMajority ==
    (pc = "fill_loop" /\ idx > 0) =>
        /\ \A m \in graph.nodes \ {Examined} : lobe[m] = prev_lobe[m]
        /\ prev_lobe[Examined] # 0 => lobe[Examined] = prev_lobe[Examined]
        /\ prev_lobe[Examined] = 0 =>
              /\ lobe[Examined] \in LobeValues
              /\ \A L \in 1..5 :
                    lobe[Examined] = L <=>
                        /\ CountOf(Examined, L) >= 2
                        /\ \A M \in LobeValues \ {L} :
                              CountOf(Examined, M) < CountOf(Examined, L)

\* C7, amended: a turn of add_new_parent_for_lobe gives a neutral node the
\* lobe L (1..5) iff at least two of its children carry L, no value (0
\* included) is carried by more children, and L comes first in child order
\* among the values carried by as many; the children's lobes are those at
\* the time the node is examined.  On a tie the value met first wins, and
\* the node stays neutral when that value is 0.  No other node changes.
C7_FillFirstHighest ==
    (pc = "fill_loop" /\ idx > 0) =>
        /\ \A m \in graph.nodes \ {Examined} : lobe[m] = prev_lobe[m]
        /\ prev_lobe[Examined] # 0 => lobe[Examined] = prev_lobe[Examined]
        /\ prev_lobe[Examined] = 0 =>
              /\ lobe[Examined] \in LobeValues
              /\ \A L \in 1..5 :
                    lobe[Examined] = L <=>
                        /\ CountOf(Examined, L) >= 2
                        /\ \A M \in LobeValues \ {L} :
                              /\ CountOf(Examined, M) <= CountOf(Examined, L)
                              /\ CountOf(Examined, M) = CountOf(Examined, L) =>
                                    FirstOf(Examined, L) < FirstOf(Examined, M)

\* a neutral node whose children carry 2, 2, 3, 3 with a 2 first has been
\* examined and has become 2
C7_Witness ==
    /\ pc = "fill_loop" /\ idx > 0
    /\ prev_lobe[Examined] = 0 /\ lobe[Examined] = 2
    /\ CountOf(Examined, 2) = 2 /\ CountOf(Examined, 3) = 2

\* C8: over the recoloring schedule of main every node's lobe stays in
\* 0..5: after each of the 5 rounds of the neighbor and subtree passes and
\* after the drastic, neutralizing and fill passes.
C8_LobesStayInRange ==
    /\ DOMAIN lobe = graph.nodes
    /\ \A n \in graph.nodes : lobe[n] \in LobeValues

\* the schedule has run to its end: 5 rounds done, and the neutralizing
\* pass and the fill pass have both recolored a node
C8_Witness ==
    /\ pc = "write_graphml" /\ round = Rounds
    /\ prev_lobe # lobe
    /\ \E n \in graph.nodes : prev_lobe[n] = 0 /\ level[n] = 4

\* C10: in the loop of the neighbor pass the root_successors counters equal
\* the true number of nodes of each lobe, a node is recolored only while
\* its lobe has more than one node, and no lobe loses its last node.
C10_NeighborCountersTrue ==
    pc = "neighbor_loop" =>
        /\ \A L \in 1..5 : Get(root_successors, L, 0) = TrueCount(lobe, L)
        /\ (idx > 0 /\ lobe # prev_lobe) =>
              TrueCount(prev_lobe, prev_lobe[Examined]) > 1
        /\ \A L \in 1..5 : TrueCount(prev_lobe, L) > 0 => TrueCount(lobe, L) > 0

\* the non-zero lobes the strict descendants of n carried before the pass
LobesBelow(n) == {prev_lobe[d] : d \in Descendants(graph, n)} \ {0}

\* C11: after recolor_if_successors_all_different_color every non-neutral
\* node whose descendants carried exactly one non-zero lobe L, other than
\* its own, has lobe L, and every other node has the lobe it had.
C11_SubtreeMajority ==
    pc = "recolor_if_successors_all_different_color" =>
        \A n \in graph.nodes :
            IF /\ prev_lobe[n] # 0
               /\ Cardinality(LobesBelow(n)) = 1
               /\ prev_lobe[n] \notin LobesBelow(n)
            THEN lobe[n] \in LobesBelow(n)
            ELSE lobe[n] = prev_lobe[n]

====
